---- MODULE Spec2Model ----
(***************************************************************************)
(* Model of bot_engine.py: the module-level start-up check, main()'s       *)
(* handler registration, the routing of inbound updates, the command       *)
(* callbacks and chat_handler (typing indicator, one generate_content      *)
(* call, strip, length-based chunking, sequential reply_text calls and the *)
(* two except branches).                                                   *)
(*                                                                         *)
(* A text is a sequence of one-character strings.  A coroutine is cut at   *)
(* its awaits: one action runs a callback from the completion of one       *)
(* awaited call to the start of the next awaited call.                     *)
(***************************************************************************)
EXTENDS Integers, Sequences, FiniteSets

(* ------------------------------ bounds --------------------------------- *)

\* Generated texts have lengths around k * TELEGRAM_MAX_MESSAGE_LENGTH for k up to this.
MaxMultiple == 2

\* Number of inbound updates handled concurrently under SpecConc.
NumChats == 2

(* --------------------------- program constants ------------------------- *)

TELEGRAM_MAX_MESSAGE_LENGTH == 4096

\* os.getenv results: None when the variable is unset, otherwise its string value.
None == "None"

CONFIG_ERROR == "TELEGRAM_TOKEN or GEMINI_API_KEY environment variable not set."

CLIENT_ERROR == "Failed to initialize Gemini Client"

\* The fixed replies: each is a text of one token holding the whole message
\* (abridged for the command replies and the report).
API_APOLOGY == <<"An error occurred while communicating with the Gemini API. Please try again later.">>

UNEXPECTED_APOLOGY == <<"An unexpected error occurred. Please check the bot logs.">>

START_REPLY == <<"Hello! I'm a bot powered by Google's Gemini AI.">>

HELP_REPLY == <<"Available Commands: /start /help /status">>

STATUS_REPORT == <<"Bot Health Status Report">>

HEALTH_FAILED == <<"Health Check Failed: Could not gather system metrics.">>

(* ------------------------------ strings -------------------------------- *)

Min(a, b) == IF a <= b THEN a ELSE b

\* The characters str.strip() removes (those of the model's alphabet).
Whitespace == {" ", "\n", "\t"}

RECURSIVE FirstNonWs(_, _)
\* Index of the first non-whitespace character of s at or after i, Len(s)+1 if none.
FirstNonWs(s, i) ==
    IF i > Len(s) THEN i
    ELSE IF s[i] \in Whitespace THEN FirstNonWs(s, i + 1) ELSE i

RECURSIVE LastNonWs(_, _)
\* Index of the last non-whitespace character of s at or before j, 0 if none.
LastNonWs(s, j) ==
    IF j < 1 THEN j
    ELSE IF s[j] \in Whitespace THEN LastNonWs(s, j - 1) ELSE j

\* str.strip(): s without its leading and trailing whitespace.
Strip(s) ==
    LET a == FirstNonWs(s, 1)
        b == LastNonWs(s, Len(s))
    IN  IF a > b THEN <<>> ELSE SubSeq(s, a, b)

\* Python's s[i:j] for 0 <= i <= j: the characters at 0-based positions i .. j-1,
\* clamped to the end of s.
Slice(s, i, j) == SubSeq(s, i + 1, Min(j, Len(s)))

\* Python's range(0, stop, step) as a sequence: 0, step, 2*step, ... below stop.
Range0(stop, step) == [k \in 1..((stop + step - 1) \div step) |-> (k - 1) * step]

\* Faulty variant of SliceWidth: slices one character short of the stride.
SliceWidthShort == TELEGRAM_MAX_MESSAGE_LENGTH - 1

\* The width of one slice, the distance between i and i + TELEGRAM_MAX_MESSAGE_LENGTH.
SliceWidth == TELEGRAM_MAX_MESSAGE_LENGTH

\* Faulty variant of SplitMessages: the list comprehension alone, without the
\* length test in front of it.
SplitAlways(text) ==
    LET starts == Range0(Len(text), TELEGRAM_MAX_MESSAGE_LENGTH)
    IN  [k \in 1..Len(starts) |-> Slice(text, starts[k], starts[k] + SliceWidth)]

\* chat_handler's "Split and send long messages": the list `messages`.
SplitMessages(text) ==
    IF Len(text) > TELEGRAM_MAX_MESSAGE_LENGTH
    THEN LET starts == Range0(Len(text), TELEGRAM_MAX_MESSAGE_LENGTH)
         IN  [k \in 1..Len(starts) |->
                 Slice(text, starts[k], starts[k] + SliceWidth)]
    ELSE <<text>>

(* ------------------------------- inputs -------------------------------- *)

Alphabet == <<"a", "b", " ", "c", "\n", "d", "e">>

\* A response body of n characters: it starts and ends with a letter and has
\* letters, blanks and line feeds inside.
BodyText(n) ==
    [i \in 1..n |-> IF i = 1 \/ i = n THEN "x" ELSE Alphabet[(i % 7) + 1]]

\* The same text as the provider may return it, with whitespace around it.
Padded(body) == <<" ", "\n">> \o body \o <<"\t", " ">>

\* Lengths of the normalized text: 0, short, and one below, at and one above
\* each multiple of the chunk length.
GenLengths ==
    {0, 1, 5, 5000} \cup
    {k * TELEGRAM_MAX_MESSAGE_LENGTH + d : k \in 1..MaxMultiple, d \in {-1, 0, 1}}

\* Values of response.text when generate_content returns a text.
ResponseTexts ==
    {BodyText(n) : n \in GenLengths} \cup {Padded(BodyText(n)) : n \in GenLengths}

\* The fewer values used when several updates are handled at once: a text of
\* one chunk and a text of three.
ConcTexts ==
    {Padded(BodyText(n)) : n \in {5, 2 * TELEGRAM_MAX_MESSAGE_LENGTH + 1}}

\* The bot_command entity the platform attaches to a message.
BotCommandAt(off) == [type |-> "bot_command", offset |-> off]

\* Inbound text messages.  A text is a sequence of tokens; the command prefix
\* "/" is a token of its own.  The platform marks "/" followed by a command
\* name as a bot_command entity at the offset of the "/".
Updates ==
    {[text |-> <<"/", c>>, entities |-> <<BotCommandAt(0)>>] :
        c \in {"start", "help", "status", "foo"}} \cup
    {[text |-> <<"/", "status", " ", "now">>, entities |-> <<BotCommandAt(0)>>],
     [text |-> <<"/", " ", "hi">>, entities |-> <<>>],
     [text |-> <<"hi">>, entities |-> <<>>],
     [text |-> <<"hi", " ", "/", "start">>, entities |-> <<BotCommandAt(3)>>]}

\* The inbound message used when several updates are handled at once.
ConcUpdates == {[text |-> <<"hi">>, entities |-> <<>>]}

\* Values of the two environment variables: unset, set to "", set to a value.
EnvValues == {None, "", "secret"}

(* ------------------------------- routing ------------------------------- *)

\* filters.COMMAND: the message starts with a bot command.
FilterCommand(u) ==
    /\ Len(u.entities) > 0
    /\ u.entities[1].type = "bot_command"
    /\ u.entities[1].offset = 0

\* Faulty variant of FilterChat: filters.TEXT alone, commands included.
FilterTextOnly(u) == Len(u.text) > 0

\* filters.TEXT & ~filters.COMMAND, the filter of the MessageHandler.
FilterChat(u) == Len(u.text) > 0 /\ ~FilterCommand(u)

\* The handlers main() registers, in registration order.
RegisteredHandlers ==
    <<[kind |-> "command", command |-> "start",  callback |-> "start_command"],
      [kind |-> "command", command |-> "help",   callback |-> "help_command"],
      [kind |-> "command", command |-> "status", callback |-> "status_command"],
      [kind |-> "message", command |-> "",       callback |-> "chat_handler"]>>

\* Whether a registered handler accepts an update.
Accepts(hd, u) ==
    IF hd.kind = "command"
    THEN FilterCommand(u) /\ Len(u.text) >= 2 /\ u.text[2] = hd.command
    ELSE FilterChat(u)

\* The callback the application runs for an update: that of the first
\* registered handler accepting it, "none" when no handler accepts it.
Route(hs, u) ==
    LET ok == {k \in 1..Len(hs) : Accepts(hs[k], u)}
    IN  IF ok = {} THEN "none"
        ELSE hs[CHOOSE k \in ok : \A j \in ok : k <= j].callback

CommandCallbacks == {"start_command", "help_command", "status_command"}

\* Faulty variant of SecretsMissing: `and` in place of `or`.
SecretsMissingBoth(e) ==
    (e.TELEGRAM_TOKEN \in {None, ""}) /\ (e.GEMINI_API_KEY \in {None, ""})

\* The start-up test `not TELEGRAM_TOKEN or not GEMINI_API_KEY`: None and the
\* empty string are both falsy.
SecretsMissing(e) ==
    (e.TELEGRAM_TOKEN \in {None, ""}) \/ (e.GEMINI_API_KEY \in {None, ""})

(* -------------------------------- state -------------------------------- *)

VARIABLES
    env,        \* the process environment: TELEGRAM_TOKEN and GEMINI_API_KEY
    proc,       \* "boot", "loaded" (module body done), "polling", "exited"
    exitCode,   \* the exit status once proc = "exited", -1 before
    handlers,   \* the handlers added to the application, in order
    log,        \* log[0]: process-level records; log[h]: records of update h
    update,     \* update[h]: the inbound message given to slot h
    route,      \* route[h]: the callback run for it ("" before dispatch)
    pc,         \* pc[h]: where the callback of update h stands
    typing,     \* typing[h]: send_chat_action: "", "pending", "ok", "failed"
    calls,      \* calls[h]: generate_content calls made for update h
    outcome,    \* outcome[h]: of generate_content: "", "text", "APIError", "Exception"
    response,   \* response[h]: response.text
    messages,   \* messages[h]: chat_handler's list `messages`
    started,    \* started[h]: the reply_text calls begun, in call order
    inflight,   \* inflight[h]: indices of started[h] not yet completed
    acked       \* acked[h]: indices of started[h] completed successfully

vars == <<env, proc, exitCode, handlers, log, update, route, pc, typing, calls,
          outcome, response, messages, started, inflight, acked>>

procVars == <<env, proc, exitCode, handlers>>

Chats == 1..NumChats

NoUpdate == [text |-> <<>>, entities |-> <<>>]

Init ==
    /\ env \in [TELEGRAM_TOKEN : EnvValues, GEMINI_API_KEY : EnvValues]
    /\ proc = "boot"
    /\ exitCode = -1
    /\ handlers = <<>>
    /\ log = [h \in 0..NumChats |-> <<>>]
    /\ update = [h \in Chats |-> NoUpdate]
    /\ route = [h \in Chats |-> ""]
    /\ pc = [h \in Chats |-> "idle"]
    /\ typing = [h \in Chats |-> ""]
    /\ calls = [h \in Chats |-> 0]
    /\ outcome = [h \in Chats |-> ""]
    /\ response = [h \in Chats |-> <<>>]
    /\ messages = [h \in Chats |-> <<>>]
    /\ started = [h \in Chats |-> <<>>]
    /\ inflight = [h \in Chats |-> {}]
    /\ acked = [h \in Chats |-> {}]

(* ------------------------------ start-up ------------------------------- *)

chatVars == <<update, route, pc, typing, calls, outcome, response, messages,
              started, inflight, acked>>

\* Lines 36-38: a secret is missing; log the error and sys.exit(1).
BootMissing ==
    /\ proc = "boot"
    /\ SecretsMissing(env)
    /\ log' = [log EXCEPT ![0] = Append(@, CONFIG_ERROR)]
    /\ proc' = "exited"
    /\ exitCode' = 1
    /\ UNCHANGED <<env, handlers, chatVars>>

\* Lines 40-44: genai.Client(...) raises; log the error and sys.exit(1).
BootClientFail ==
    /\ proc = "boot"
    /\ ~SecretsMissing(env)
    /\ log' = [log EXCEPT ![0] = Append(@, CLIENT_ERROR)]
    /\ proc' = "exited"
    /\ exitCode' = 1
    /\ UNCHANGED <<env, handlers, chatVars>>

\* Lines 36-44 pass: the module body completes.
BootOk ==
    /\ proc = "boot"
    /\ ~SecretsMissing(env)
    /\ proc' = "loaded"
    /\ UNCHANGED <<env, exitCode, handlers, log, chatVars>>

\* main(): register the four handlers and start polling.
Main ==
    /\ proc = "loaded"
    /\ handlers' = RegisteredHandlers
    /\ log' = [log EXCEPT ![0] = Append(@, "Bot is running...")]
    /\ proc' = "polling"
    /\ UNCHANGED <<env, exitCode, chatVars>>

(* ----------------------------- reply_text ------------------------------ *)

\* One reply_text call: the place in the source that makes it and its text.
Reply(src, text) == [src |-> src, text |-> text]

\* Faulty variant of UnexpectedReply: the provider apology in both branches.
UnexpectedReplyAsApi == Reply("except_other", API_APOLOGY)

\* The reply of the `except Exception` branch (lines 144-146).
UnexpectedReply == Reply("except_other", UNEXPECTED_APOLOGY)

\* The reply of the `except APIError` branch (lines 139-141).
ApiReply == Reply("except_api", API_APOLOGY)

\* Faulty variant of SendFrom: every remaining chunk is sent at once, as a
\* gather over the reply_text calls would.
SendFromAll(msgs, k) == k..Len(msgs)

\* The positions of `messages` whose reply_text call begins when the for loop
\* reaches position k: the loop awaits one call per iteration.
SendFrom(msgs, k) == {k}

\* started[h] after the loop at position k begins its call(s).
StartChunks(st, msgs, k) ==
    LET ks == SendFrom(msgs, k)
        lo == k
        hi == k + Cardinality(ks) - 1
    IN  st \o [j \in 1..(hi - lo + 1) |-> Reply("generated", msgs[lo + j - 1])]

(* ------------------------------ dispatch ------------------------------- *)

\* The application hands update u to chat_handler, which logs it and awaits
\* send_chat_action (lines 109-114).
DispatchChat(h, u) ==
    /\ proc = "polling"
    /\ pc[h] = "idle"
    /\ Route(handlers, u) = "chat_handler"
    /\ update' = [update EXCEPT ![h] = u]
    /\ route' = [route EXCEPT ![h] = "chat_handler"]
    /\ log' = [log EXCEPT ![h] = Append(@, "Received message")]
    /\ pc' = [pc EXCEPT ![h] = "typing"]
    /\ typing' = [typing EXCEPT ![h] = "pending"]
    /\ UNCHANGED <<procVars, outcome, calls, response, messages, started, inflight, acked>>

\* The text a command callback replies with; status_command's is the report
\* of get_health_status(), or its fallback when the metrics cannot be read.
CommandReplies(cb) ==
    IF cb = "start_command" THEN {START_REPLY}
    ELSE IF cb = "help_command" THEN {HELP_REPLY}
    ELSE {STATUS_REPORT, HEALTH_FAILED}

\* The application hands update u to a command callback, which logs the
\* command and awaits its reply_text (lines 74-104).
DispatchCommand(h, u) ==
    /\ proc = "polling"
    /\ pc[h] = "idle"
    /\ Route(handlers, u) \in CommandCallbacks
    /\ update' = [update EXCEPT ![h] = u]
    /\ route' = [route EXCEPT ![h] = Route(handlers, u)]
    /\ log' = [log EXCEPT ![h] = Append(@, "used command")]
    /\ \E t \in CommandReplies(Route(handlers, u)) :
          started' = [started EXCEPT ![h] = Append(@, Reply("command", t))]
    /\ inflight' = [inflight EXCEPT ![h] = {1}]
    /\ pc' = [pc EXCEPT ![h] = "cmd_reply"]
    /\ UNCHANGED <<procVars, typing, outcome, calls, response, messages, acked>>

\* No registered handler accepts update u: no callback runs for it.
DispatchNone(h, u) ==
    /\ proc = "polling"
    /\ pc[h] = "idle"
    /\ Route(handlers, u) = "none"
    /\ update' = [update EXCEPT ![h] = u]
    /\ route' = [route EXCEPT ![h] = "none"]
    /\ pc' = [pc EXCEPT ![h] = "dropped"]
    /\ UNCHANGED <<procVars, typing, outcome, log, calls, response, messages, started, inflight, acked>>

\* The command callback's reply_text completes: the callback returns.
CommandReplyOk(h) ==
    /\ pc[h] = "cmd_reply"
    /\ acked' = [acked EXCEPT ![h] = @ \cup inflight[h]]
    /\ inflight' = [inflight EXCEPT ![h] = {}]
    /\ pc' = [pc EXCEPT ![h] = "done"]
    /\ UNCHANGED <<procVars, typing, outcome, log, update, route, calls, response, messages, started>>

\* The command callback's reply_text raises: nothing catches it.
CommandReplyFail(h) ==
    /\ pc[h] = "cmd_reply"
    /\ inflight' = [inflight EXCEPT ![h] = {}]
    /\ pc' = [pc EXCEPT ![h] = "raised"]
    /\ UNCHANGED <<procVars, typing, outcome, log, update, route, calls, response, messages, started, acked>>

(* ----------------------------- chat_handler ---------------------------- *)

\* Entering an except branch: log the error and await the apology's reply_text.
Except(h, record, reply) ==
    /\ log' = [log EXCEPT ![h] = Append(@, record)]
    /\ started' = [started EXCEPT ![h] = Append(@, reply)]
    /\ pc' = [pc EXCEPT ![h] = "apology"]

\* send_chat_action raises (line 114): the `except Exception` branch runs.
TypingFail(h) ==
    /\ pc[h] = "typing"
    /\ Except(h, "An unexpected error occurred", UnexpectedReply)
    /\ inflight' = [inflight EXCEPT ![h] = {Len(started'[h])}]
    /\ typing' = [typing EXCEPT ![h] = "failed"]
    /\ UNCHANGED <<procVars, outcome, update, route, calls, response, messages, acked>>

\* send_chat_action completes and generate_content returns text t: strip it,
\* split it and await the first reply_text (lines 116-133).
GenerateOk(h, t) ==
    /\ pc[h] = "typing"
    /\ calls' = [calls EXCEPT ![h] = @ + 1]
    /\ response' = [response EXCEPT ![h] = t]
    /\ messages' = [messages EXCEPT ![h] = SplitMessages(Strip(t))]
    /\ IF Len(messages'[h]) = 0
       THEN /\ started' = started
            /\ inflight' = inflight
            /\ log' = [log EXCEPT ![h] = Append(@, "Replied")]
            /\ pc' = [pc EXCEPT ![h] = "done"]
       ELSE /\ started' = [started EXCEPT ![h] = StartChunks(@, messages'[h], 1)]
            /\ inflight' = [inflight EXCEPT ![h] = 1..Len(started'[h])]
            /\ log' = log
            /\ pc' = [pc EXCEPT ![h] = "sending"]
    /\ typing' = [typing EXCEPT ![h] = "ok"]
    /\ outcome' = [outcome EXCEPT ![h] = "text"]
    /\ UNCHANGED <<procVars, update, route, acked>>

\* send_chat_action completes and generate_content raises APIError: the
\* `except APIError` branch runs (lines 137-141).
GenerateApiError(h) ==
    /\ pc[h] = "typing"
    /\ calls' = [calls EXCEPT ![h] = @ + 1]
    /\ Except(h, "Gemini API Error", ApiReply)
    /\ inflight' = [inflight EXCEPT ![h] = {Len(started'[h])}]
    /\ typing' = [typing EXCEPT ![h] = "ok"]
    /\ outcome' = [outcome EXCEPT ![h] = "APIError"]
    /\ UNCHANGED <<procVars, update, route, response, messages, acked>>

\* send_chat_action completes and generate_content raises another exception,
\* or response.text is None and .strip() raises: the `except Exception`
\* branch runs (lines 142-146).
GenerateUnexpected(h) ==
    /\ pc[h] = "typing"
    /\ calls' = [calls EXCEPT ![h] = @ + 1]
    /\ Except(h, "An unexpected error occurred", UnexpectedReply)
    /\ inflight' = [inflight EXCEPT ![h] = {Len(started'[h])}]
    /\ typing' = [typing EXCEPT ![h] = "ok"]
    /\ outcome' = [outcome EXCEPT ![h] = "Exception"]
    /\ UNCHANGED <<procVars, update, route, response, messages, acked>>

\* A chunk's reply_text completes: the for loop goes on to the next chunk, or
\* ends, logs and returns (lines 132-135).
SendOk(h, i) ==
    /\ pc[h] = "sending"
    /\ i \in inflight[h]
    /\ acked' = [acked EXCEPT ![h] = @ \cup {i}]
    /\ IF Len(started[h]) < Len(messages[h])
       THEN /\ started' = [started EXCEPT ![h] =
                              StartChunks(@, messages[h], Len(started[h]) + 1)]
            /\ inflight' = [inflight EXCEPT ![h] =
                              (@ \ {i}) \cup ((Len(started[h]) + 1)..Len(started'[h]))]
            /\ log' = log
            /\ pc' = pc
       ELSE /\ started' = started
            /\ inflight' = [inflight EXCEPT ![h] = @ \ {i}]
            /\ IF inflight'[h] = {}
               THEN /\ log' = [log EXCEPT ![h] = Append(@, "Replied")]
                    /\ pc' = [pc EXCEPT ![h] = "done"]
               ELSE /\ log' = log
                    /\ pc' = pc
    /\ UNCHANGED <<procVars, typing, outcome, update, route, calls, response, messages>>

\* A chunk's reply_text raises: the `except Exception` branch runs.
SendFail(h, i) ==
    /\ pc[h] = "sending"
    /\ i \in inflight[h]
    /\ Except(h, "An unexpected error occurred", UnexpectedReply)
    /\ inflight' = [inflight EXCEPT ![h] = (@ \ {i}) \cup {Len(started'[h])}]
    /\ UNCHANGED <<procVars, typing, outcome, update, route, calls, response, messages, acked>>

\* The apology's reply_text completes: chat_handler returns.
ApologyOk(h) ==
    /\ pc[h] = "apology"
    /\ acked' = [acked EXCEPT ![h] = @ \cup {Len(started[h])}]
    /\ inflight' = [inflight EXCEPT ![h] = @ \ {Len(started[h])}]
    /\ pc' = [pc EXCEPT ![h] = "done"]
    /\ UNCHANGED <<procVars, typing, outcome, log, update, route, calls, response, messages, started>>

\* The apology's reply_text raises inside the except branch: nothing catches
\* it and the exception leaves chat_handler.
ApologyFail(h) ==
    /\ pc[h] = "apology"
    /\ inflight' = [inflight EXCEPT ![h] = @ \ {Len(started[h])}]
    /\ pc' = [pc EXCEPT ![h] = "raised"]
    /\ UNCHANGED <<procVars, typing, outcome, log, update, route, calls, response, messages, started, acked>>

(* ---------------------------- specifications --------------------------- *)

Boot == BootMissing \/ BootClientFail \/ BootOk \/ Main

\* The steps of a command callback run for the update in slot h.
HandleCommand(h) == CommandReplyOk(h) \/ CommandReplyFail(h)

\* The steps of chat_handler run for the update in slot h.
Handle(h) ==
    \/ TypingFail(h)
    \/ GenerateApiError(h)
    \/ GenerateUnexpected(h)
    \/ \E i \in inflight[h] : SendOk(h, i)
    \/ \E i \in inflight[h] : SendFail(h, i)
    \/ ApologyOk(h)
    \/ ApologyFail(h)

\* One update, every inbound message and every generated text.
Next ==
    \/ Boot
    \/ \E u \in Updates : DispatchChat(1, u) \/ DispatchCommand(1, u) \/ DispatchNone(1, u)
    \/ HandleCommand(1)
    \/ \E t \in ResponseTexts : GenerateOk(1, t)
    \/ Handle(1)

Spec == Init /\ [][Next]_vars

\* NumChats updates handled concurrently, their callbacks interleaved at every
\* await; generate_content is a blocking call, so a callback runs from the
\* return of send_chat_action to its first reply_text in one step.  Handling
\* the updates one after the other is one of these interleavings.
NextConc ==
    \/ Boot
    \/ \E h \in Chats :
          \/ \E u \in ConcUpdates : DispatchChat(h, u)
          \/ \E t \in ConcTexts : GenerateOk(h, t)
          \/ Handle(h)

SpecConc == Init /\ [][NextConc]_vars

(* ------------------------- observations of a run ----------------------- *)

\* The k-th smallest element of a finite set of integers.
Kth(S, k) == CHOOSE i \in S : Cardinality({j \in S : j <= i}) = k

\* The texts delivered for update h: those of the reply_text calls that
\* completed successfully, in call order.
Delivered(h) ==
    [k \in 1..Cardinality(acked[h]) |-> started[h][Kth(acked[h], k)].text]

\* The reply_text calls of update h made by the for loop over `messages`.
GeneratedCalls(h) == {i \in 1..Len(started[h]) : started[h][i].src = "generated"}

\* The reply_text calls of update h made by an except branch.
ApologyCalls(h) == {i \in 1..Len(started[h]) : started[h][i].src # "generated"}

\* A reply_text call for a chunk of update h raised.
ChunkSendFailed(h) == \E i \in GeneratedCalls(h) : i \notin acked[h] /\ i \notin inflight[h]

\* chat_handler was run for update h and has finished, returning or raising.
Finished(h) == route[h] = "chat_handler" /\ pc[h] \in {"done", "raised"}

\* Generation succeeded and every reply_text call of update h succeeded.
AllSent(h) ==
    /\ route[h] = "chat_handler"
    /\ pc[h] = "done"
    /\ outcome[h] = "text"
    /\ acked[h] = 1..Len(started[h])

RECURSIVE Concat(_)
\* The concatenation of a sequence of texts, in order.
Concat(ts) == IF ts = <<>> THEN <<>> ELSE Head(ts) \o Concat(Tail(ts))

\* The lengths of the texts of a sequence of texts.
Lengths(ts) == [k \in 1..Len(ts) |-> Len(ts[k])]

(* -------------------------------- claims ------------------------------- *)

\* C1: when generation and every send succeed, the texts passed to
\* reply_text, concatenated in emission order, are exactly the normalized
\* generated text.
C1_RoundTrip ==
    \A h \in Chats :
        AllSent(h) =>
            /\ Concat(Delivered(h)) = Strip(response[h])
            /\ Concat([k \in 1..Len(started[h]) |-> started[h][k].text]) = Strip(response[h])

\* C1 witness: a padded text of more than two chunk lengths was stripped,
\* split in three and sent in full.
C1_Witness ==
    /\ AllSent(1)
    /\ Len(started[1]) = 3
    /\ Len(Strip(response[1])) = 2 * TELEGRAM_MAX_MESSAGE_LENGTH + 1
    /\ Len(response[1]) > Len(Strip(response[1]))

\* C2: every chunk has at most TELEGRAM_MAX_MESSAGE_LENGTH characters; a text
\* longer than that gives chunks of exactly that length except possibly the
\* last; a text of at most that length gives the one chunk equal to it; 5000
\* characters give chunks of 4096 and 904.
C2_ChunkSizes ==
    \A h \in Chats :
        outcome[h] = "text" =>
            LET T  == Strip(response[h])
                ms == messages[h]
            IN  /\ \A k \in 1..Len(ms) : Len(ms[k]) <= 4096
                /\ \A i \in GeneratedCalls(h) : Len(started[h][i].text) <= 4096
                /\ Len(T) > 4096 =>
                      /\ Len(ms) >= 2
                      /\ \A k \in 1..(Len(ms) - 1) : Len(ms[k]) = 4096
                      /\ Len(ms[Len(ms)]) >= 1
                /\ Len(T) <= 4096 => ms = <<T>>
                /\ Len(T) = 5000 => Lengths(ms) = <<4096, 904>>

\* C2 witness: a text of 5000 characters was sent as chunks of 4096 and 904.
C2_Witness ==
    /\ AllSent(1)
    /\ Len(Strip(response[1])) = 5000
    /\ Lengths(Delivered(1)) = <<4096, 904>>

\* C3 (as claimed): by the time chat_handler finishes, exactly one
\* generate_content call was made, whatever failed.
C3_SingleCall == \A h \in Chats : Finished(h) => calls[h] = 1

\* C4 (as claimed): after an APIError exactly one chunk is emitted, the
\* provider apology, no generated chunk, and no exception leaves chat_handler.
C4_ProviderFailureIsolated ==
    \A h \in Chats :
        (Finished(h) /\ outcome[h] = "APIError") =>
            /\ Delivered(h) = <<API_APOLOGY>>
            /\ GeneratedCalls(h) = {}
            /\ pc[h] # "raised"

\* C5 (as claimed): a failed typing indicator does not stop chat_handler from
\* calling the AI client, and is never itself the cause of an apology: an
\* apology is sent only when generation or the send of a chunk failed.
C5_TypingBestEffort ==
    \A h \in Chats :
        (Finished(h) /\ typing[h] = "failed") =>
            /\ calls[h] = 1
            /\ outcome[h] # ""
            /\ ApologyCalls(h) # {} =>
                  (outcome[h] \in {"APIError", "Exception"} \/ ChunkSendFailed(h))

\* An unexpected failure: in the typing indicator, in generation or
\* normalization, or in the send of a chunk.
UnexpectedFailure(h) ==
    \/ typing[h] = "failed"
    \/ outcome[h] = "Exception"
    \/ ChunkSendFailed(h)

\* C6 (as claimed): after an unexpected failure the complete output of the
\* message is the one "check the bot logs" apology.
C6_OnlyTheApology ==
    \A h \in Chats :
        (route[h] = "chat_handler" /\ pc[h] = "done" /\ UnexpectedFailure(h)) =>
            Delivered(h) = <<UNEXPECTED_APOLOGY>>

\* C6 (amended): after an unexpected failure chat_handler makes exactly one
\* apology reply_text call, its last call, with the "check the bot logs" text,
\* which differs from the provider apology; the chunks sent before it are the
\* first chunks of the partition, all delivered but the one whose send failed;
\* a failure before the sends leaves the apology as the only call.
C6_ApologyAfterPrefix ==
    \A h \in Chats :
        (route[h] = "chat_handler" /\ UnexpectedFailure(h)) =>
            LET n == Len(started[h]) IN
            /\ pc[h] \in {"apology", "done", "raised"}
            /\ n >= 1
            /\ ApologyCalls(h) = {n}
            /\ started[h][n] = Reply("except_other", UNEXPECTED_APOLOGY)
            /\ UNEXPECTED_APOLOGY # API_APOLOGY
            /\ n - 1 <= Len(messages[h])
            /\ \A k \in 1..(n - 1) : started[h][k].text = messages[h][k]
            /\ acked[h] \ {n} = 1..(n - 2)
            /\ (typing[h] = "failed" \/ outcome[h] = "Exception") => n = 1
            /\ pc[h] = "done" =>
                  Delivered(h) = SubSeq(messages[h], 1, n - 2) \o <<UNEXPECTED_APOLOGY>>

\* C6 witness: the first chunk was delivered, the send of the second failed,
\* and the apology was delivered after the first chunk.
C6_Witness ==
    /\ route[1] = "chat_handler"
    /\ pc[1] = "done"
    /\ Len(messages[1]) >= 2
    /\ Len(started[1]) = 3
    /\ acked[1] = {1, 3}
    /\ Delivered(1) = <<messages[1][1], UNEXPECTED_APOLOGY>>

\* C7 (as claimed): no failure leaves chat_handler as an exception.
C7_NothingEscapes == \A h \in Chats : route[h] = "chat_handler" => pc[h] # "raised"

\* C8: with updates handled concurrently, the chunks of one message are sent
\* in partition order, a chunk's send begins only after the send of the chunk
\* before it has completed, and at most one send per message is in flight.
C8_SequentialDelivery ==
    \A h \in Chats :
        route[h] = "chat_handler" =>
            /\ Cardinality(inflight[h]) <= 1
            /\ inflight[h] \subseteq {Len(started[h])}
            /\ \A i \in GeneratedCalls(h) :
                  /\ i <= Len(messages[h])
                  /\ started[h][i].text = messages[h][i]
                  /\ \A j \in 1..(i - 1) : j \in acked[h]

\* C8 witness: two messages of three chunks are being delivered at once; the
\* third chunk of one is in flight after its first two were delivered, while
\* the second chunk of the other is in flight after its first was delivered.
C8_Witness ==
    /\ pc[1] = "sending" /\ acked[1] = {1, 2} /\ inflight[1] = {3}
    /\ pc[2] = "sending" /\ acked[2] = {1} /\ inflight[2] = {2}
    /\ Len(messages[1]) = 3 /\ Len(messages[2]) = 3

\* A secret is absent from the environment.
Absent(v) == v = None

\* The secrets an error record names.
NamedSecrets(record) ==
    IF record = CONFIG_ERROR THEN {"TELEGRAM_TOKEN", "GEMINI_API_KEY"} ELSE {}

\* No handler is registered and no update has been given to a callback.
NothingServed ==
    /\ handlers = <<>>
    /\ \A h \in Chats : pc[h] = "idle" /\ started[h] = <<>> /\ calls[h] = 0

\* C9 (as claimed): with a secret absent the process logs which secret is
\* missing and exits with a non-zero status before serving anything.
C9_LogsWhichSecret ==
    (proc # "boot" /\ (Absent(env.TELEGRAM_TOKEN) \/ Absent(env.GEMINI_API_KEY))) =>
        /\ proc = "exited"
        /\ exitCode # 0
        /\ NothingServed
        /\ Len(log[0]) = 1
        /\ NamedSecrets(log[0][1]) =
              {n \in {"TELEGRAM_TOKEN", "GEMINI_API_KEY"} : Absent(env[n])}

\* C9 (amended): with a secret absent the process logs one fixed error record,
\* which names both secrets whichever is missing, and exits with status 1
\* before any handler is registered and before any update is served.
C9_FatalConfiguration ==
    (proc # "boot" /\ (Absent(env.TELEGRAM_TOKEN) \/ Absent(env.GEMINI_API_KEY))) =>
        /\ proc = "exited"
        /\ exitCode = 1
        /\ NothingServed
        /\ log[0] = <<CONFIG_ERROR>>
        /\ NamedSecrets(log[0][1]) = {"TELEGRAM_TOKEN", "GEMINI_API_KEY"}

\* C9 witness: the process exited with only TELEGRAM_TOKEN unset.
C9_Witness ==
    /\ proc = "exited"
    /\ Absent(env.TELEGRAM_TOKEN)
    /\ env.GEMINI_API_KEY = "secret"

\* The text begins with the command prefix.
BeginsWithPrefix(text) == Len(text) >= 1 /\ text[1] = "/"

\* The text begins with a bot command: the prefix directly followed by a
\* command name.
BeginsWithCommand(text) == Len(text) >= 2 /\ text[1] = "/" /\ text[2] # " "

Dispatched(h) == pc[h] # "idle"

\* C10 (as claimed): a text beginning with the command prefix goes to a
\* command callback and never to chat_handler; any other text goes to
\* chat_handler.
C10_PrefixRouting ==
    \A h \in Chats :
        Dispatched(h) =>
            IF BeginsWithPrefix(update[h].text)
            THEN route[h] \in CommandCallbacks /\ calls[h] = 0
            ELSE route[h] = "chat_handler"

\* C10 (amended): a text beginning with a bot command never goes to
\* chat_handler and causes no AI call: /start, /help and /status go to their
\* command callbacks and any other command goes to no callback; every other
\* text, one beginning with a bare prefix included, goes to chat_handler.
C10_CommandRouting ==
    \A h \in Chats :
        Dispatched(h) =>
            LET text == update[h].text IN
            IF BeginsWithCommand(text)
            THEN /\ route[h] # "chat_handler"
                 /\ calls[h] = 0
                 /\ text[2] = "start" => route[h] = "start_command"
                 /\ text[2] = "help" => route[h] = "help_command"
                 /\ text[2] = "status" => route[h] = "status_command"
                 /\ text[2] \notin {"start", "help", "status"} => route[h] = "none"
            ELSE route[h] = "chat_handler"

\* C10 witness: "/status now" was answered by status_command.
C10_Witness ==
    /\ update[1].text = <<"/", "status", " ", "now">>
    /\ route[1] = "status_command"
    /\ pc[1] = "done"
    /\ Delivered(1) \in {<<STATUS_REPORT>>, <<HEALTH_FAILED>>}

====
